---- MODULE Spec2Model ----
(***************************************************************************)
(* Model of tiffreader.TIFFReader (src/tiffreader/TIFFReader.py): the       *)
(* global-page table _i2j, the volume index _idx built at construction,     *)
(* and the gather done by __getitem__.                                      *)
(*                                                                          *)
(* numpy arrays are records [shape, data]: data is the C-order (row-major)  *)
(* flattening, shape the sequence of axis lengths.  Axis numbers and        *)
(* indices are 0-based as in the source; TLA+ sequences are 1-based, hence  *)
(* the +1 where a sequence is subscripted.                                  *)
(***************************************************************************)
EXTENDS Integers, Sequences, FiniteSets, TLC

\* ------------------------------------------------------------------ bounds
MaxFiles == 2       \* source files of one acquisition
MaxPages == 4       \* pages in one source file
MaxChannels == 3    \* entries of the header's channel-save array
MaxSlices == 2      \* value of the header's slice-count field
ImgH == 2           \* rows of one page
ImgW == 2           \* columns of one page

\* ----------------------------------------------------------------- helpers
Min(a, b) == IF a < b THEN a ELSE b
Max(a, b) == IF a > b THEN a ELSE b

RECURSIVE SumSeq(_)
SumSeq(s) == IF s = <<>> THEN 0 ELSE Head(s) + SumSeq(Tail(s))

RECURSIVE Prod(_)
Prod(s) == IF s = <<>> THEN 1 ELSE Head(s) * Prod(Tail(s))

\* a value or a raised exception
Ok(v) == [err |-> "", val |-> v]
Raise(e) == [err |-> e, val |-> 0]

\* C-order position <-> coordinates
Stride(shape, a) == Prod(SubSeq(shape, a + 1, Len(shape)))
Strides(shape) == [a \in 1..Len(shape) |-> Stride(shape, a)]
RECURSIVE DotFrom(_, _, _)
DotFrom(coords, strides, a) ==
    IF a > Len(strides) THEN 0
    ELSE coords[a] * strides[a] + DotFrom(coords, strides, a + 1)
Unravel(k, shape) == [a \in 1..Len(shape) |-> (k \div Stride(shape, a)) % shape[a]]
Ravel(coords, shape) == DotFrom(coords, Strides(shape), 1)
ElemAt(arr, coords) == arr.data[Ravel(coords, arr.shape) + 1]

\* np.arange(n)
Arange(n) == [k \in 1..n |-> k - 1]

\* np.reshape(flat, shape): ValueError unless the sizes agree
Reshape_Unchecked(flat, shape) == Ok([shape |-> shape, data |-> flat])
Reshape(flat, shape) ==
    IF Prod(shape) = Len(flat)
    THEN Ok([shape |-> shape, data |-> flat])
    ELSE Raise("ValueError")

\* ndarray.transpose(axes): axis a of the result is axis axes[a] of arr
Transpose_Identity(arr, axes) == arr
Transpose(arr, axes) ==
    LET n == Len(arr.shape)
        newshape == [a \in 1..n |-> arr.shape[axes[a] + 1]]
        src(rc) == [b \in 1..n |-> rc[CHOOSE a \in 1..n : axes[a] + 1 = b]]
    IN  [shape |-> newshape,
         data |-> [k \in 1..Prod(newshape) |-> ElemAt(arr, src(Unravel(k - 1, newshape)))]]

\* ------------------------------------------------------------ the header
\* What get_scanimage_version_and_header returns for a header that carries the
\* dialect's own fields ('.' already replaced by '_' in the names).
SIVersions == {"4", "5", "5.2"}
HeaderOf(version, chans, nsl, fz) ==
    IF version = "4"
    THEN [channelsSave |-> chans, stackNumSlices |-> nsl, fastZEnable |-> fz]
    ELSE [hChannels_channelSave |-> chans, hStackManager_numSlices |-> nsl,
          hFastZ_enable |-> fz]

\* header[key]
Lookup(hdr, key) == IF key \in DOMAIN hdr THEN Ok(hdr[key]) ELSE Raise("KeyError")

channels(version, hdr) ==
    Lookup(hdr, IF version = "4" THEN "channelsSave" ELSE "hChannels_channelSave")

\* len(self.channels): squeeze() of a one-element array is 0-dimensional, and
\* len() of that raises
nchannels(version, hdr) ==
    LET ch == channels(version, hdr)
    IN  IF ch.err # "" THEN ch
        ELSE IF Len(ch.val) = 1 THEN Raise("TypeError")
        ELSE Ok(Len(ch.val))

nslices(version, hdr) ==
    Lookup(hdr, IF version = "4" THEN "stackNumSlices" ELSE "hStackManager_numSlices")

is_structural(version, hdr) ==
    LET fz == Lookup(hdr, "hFastZ_enable")
    IN  IF fz.err # "" THEN fz ELSE Ok(fz.val = 0)

\* int(ntiffs / nchannels / nslices)
nframes(ntiffs, version, hdr) ==
    LET nc == nchannels(version, hdr)
        ns == nslices(version, hdr)
    IN  IF nc.err # "" THEN nc
        ELSE IF nc.val = 0 THEN Raise("ZeroDivisionError")
        ELSE IF ns.err # "" THEN ns
        ELSE IF ns.val = 0 THEN Raise("ZeroDivisionError")
        ELSE Ok(ntiffs \div (nc.val * ns.val))

\* ---------------------------------------------------------- construction
\* np.vstack([np.c_[i * ones(nn), arange(nn)] for i, nn in enumerate(n)])
RECURSIVE VStackFrom(_, _)
VStackFrom(n, i) ==
    IF i >= Len(n) THEN <<>>
    ELSE [j \in 1..n[i + 1] |-> <<i, j - 1>>] \o VStackFrom(n, i + 1)
RECURSIVE VStackFrom_LocalFromOne(_, _)
VStackFrom_LocalFromOne(n, i) ==
    IF i >= Len(n) THEN <<>>
    ELSE [j \in 1..n[i + 1] |-> <<i, j>>] \o VStackFrom_LocalFromOne(n, i + 1)
I2J_LocalFromOne(n) == VStackFrom_LocalFromOne(n, 0)
I2J(n) == VStackFrom(n, 0)

\* reshape(arange(ntiffs), (nframes, nslices, nchannels)).transpose()
NonStructuralIdx_NoTranspose(ntiffs, nf, ns, nc) ==
    Reshape(Arange(ntiffs), <<nc, ns, nf>>)
NonStructuralIdx(ntiffs, nf, ns, nc) ==
    LET r == Reshape(Arange(ntiffs), <<nf, ns, nc>>)
    IN  IF r.err # "" THEN r ELSE Ok(Transpose(r.val, <<2, 1, 0>>))

\* reshape(arange(ntiffs), (nslices, nframes, nchannels)).transpose([2, 0, 1])
StructuralIdx_FrameSliceSwapped(ntiffs, nf, ns, nc) ==
    LET r == Reshape(Arange(ntiffs), <<nf, ns, nc>>)
    IN  IF r.err # "" THEN r ELSE Ok(Transpose(r.val, <<2, 1, 0>>))
StructuralIdx(ntiffs, nf, ns, nc) ==
    LET r == Reshape(Arange(ntiffs), <<ns, nf, nc>>)
    IN  IF r.err # "" THEN r ELSE Ok(Transpose(r.val, <<2, 0, 1>>))

\* the branch of __init__ that builds _idx; self.nframes / self.nslices /
\* self.nchannels are evaluated in the order the shape tuple names them
BuildIdxFrom(ntiffs, st, nf, ns, nc) ==
    IF st.err # "" THEN st
    ELSE IF ~st.val
    THEN IF nf.err # "" THEN nf
         ELSE NonStructuralIdx(ntiffs, nf.val, ns.val, nc.val)
    ELSE IF ns.err # "" THEN ns
         ELSE IF nf.err # "" THEN nf
         ELSE StructuralIdx(ntiffs, nf.val, ns.val, nc.val)
BuildIdx(ntiffs, version, hdr) ==
    BuildIdxFrom(ntiffs, is_structural(version, hdr), nframes(ntiffs, version, hdr),
                 nslices(version, hdr), nchannels(version, hdr))

\* load_header reads self._stacks[0].pages[0]
LoadHeader(pagecounts, tag) ==
    IF pagecounts = <<>> THEN Raise("IndexError") ELSE Ok(tag)

\* ------------------------------------------------------- index expressions
\* one component of the tuple handed to __getitem__
IntC(i) == [kind |-> "int", i |-> i]
SliceC(lo, hi) == [kind |-> "slice", none |-> FALSE, lo |-> lo, hi |-> hi]
FullC == [kind |-> "slice", none |-> TRUE, lo |-> 0, hi |-> 0]
ListC(l) == [kind |-> "list", l |-> l]
EllipsisC == [kind |-> "ellipsis"]

\* isinstance(i, slice)
IsSlice(c) == c.kind = "slice"

\* the indices a slice with step 1 and non-negative ends selects on an axis of
\* length d (slice(None) selects all of it)
SliceSel(c, d) ==
    IF c.none THEN [k \in 1..d |-> k - 1]
    ELSE LET a == Min(c.lo, d)
             b == Min(c.hi, d)
         IN  [k \in 1..Max(b - a, 0) |-> a + k - 1]

\* numpy's arr[comps] for comps of integers, slices and integer lists.
\* Without a list: integers drop their axis, slices keep theirs.  With a list:
\* the integers and lists are broadcast together into ONE axis, which takes the
\* place of the indexed axes when they are adjacent and comes first when a
\* slice separates them.
\*
\* cs: one component per axis of arr (the axes comps leaves out are taken whole)
PadComps(comps, n) == [a \in 1..n |-> IF a <= Len(comps) THEN comps[a] ELSE FullC]
\* the indices each sliced axis keeps
AxisSel(cs, shape) ==
    [a \in 1..Len(cs) |-> IF IsSlice(cs[a]) THEN SliceSel(cs[a], shape[a]) ELSE <<>>]
\* the common length the lists are broadcast to
BroadcastLen(cs) ==
    LET lens == {Len(cs[a].l) : a \in {x \in 1..Len(cs) : cs[x].kind = "list"}}
    IN  IF lens = {} THEN 1 ELSE CHOOSE x \in lens : \A y \in lens : y <= x
\* the axes of the result, in order: a for the sliced axis a of arr, 0 for the
\* broadcast axis
ResultAxes(cs) ==
    LET axes == [a \in 1..Len(cs) |-> a]
        isSl(a) == IsSlice(cs[a])
        isAdv(a) == ~IsSlice(cs[a])
        sliceAxes == SelectSeq(axes, isSl)
        advAxes == SelectSeq(axes, isAdv)
        adjacent == advAxes[Len(advAxes)] - advAxes[1] = Len(advAxes) - 1
        isBefore(a) == a < advAxes[1]
        isAfter(a) == a > advAxes[1]
    IN  IF \A a \in 1..Len(cs) : cs[a].kind # "list" THEN sliceAxes
        ELSE IF adjacent
             THEN SelectSeq(sliceAxes, isBefore) \o <<0>> \o SelectSeq(sliceAxes, isAfter)
             ELSE <<0>> \o sliceAxes
\* an index beyond its axis, or lists that do not broadcast
IndexFails(cs, shape, L) ==
    \/ \E a \in 1..Len(cs) :
          \/ cs[a].kind = "int" /\ cs[a].i >= shape[a]
          \/ cs[a].kind = "list" /\ \E k \in 1..Len(cs[a].l) : cs[a].l[k] >= shape[a]
          \/ cs[a].kind = "list" /\ Len(cs[a].l) # L /\ Len(cs[a].l) # 1
\* the element of arr that lands at position rc of the result
SourceCoords(cs, sel, pos, rc) ==
    [a \in 1..Len(cs) |->
        IF cs[a].kind = "int" THEN cs[a].i
        ELSE IF cs[a].kind = "list"
             THEN IF Len(cs[a].l) = 1 THEN cs[a].l[1] ELSE cs[a].l[rc[pos[0]] + 1]
             ELSE sel[a][rc[pos[a]] + 1]]
IndexFill(arr, cs, sel, pos, resShape, strides, resStrides) ==
    [shape |-> resShape,
     data |-> [k \in 1..Prod(resShape) |->
                  arr.data[DotFrom(SourceCoords(cs, sel, pos,
                                      [a \in 1..Len(resShape) |->
                                          ((k - 1) \div resStrides[a]) % resShape[a]]),
                                   strides, 1) + 1]]]
IndexBuild(arr, cs, sel, pos, resShape) ==
    IndexFill(arr, cs, sel, pos, resShape, Strides(arr.shape), Strides(resShape))
IndexWith(arr, cs, sel, RA, L) ==
    IndexBuild(arr, cs, sel,
               [x \in 0..Len(cs) |->
                   IF \E p \in 1..Len(RA) : RA[p] = x
                   THEN CHOOSE p \in 1..Len(RA) : RA[p] = x ELSE 0],
               [p \in 1..Len(RA) |-> IF RA[p] = 0 THEN L ELSE Len(sel[RA[p]])])
IndexPadded(arr, cs) ==
    IF IndexFails(cs, arr.shape, BroadcastLen(cs)) THEN Raise("IndexError")
    ELSE Ok(IndexWith(arr, cs, AxisSel(cs, arr.shape), ResultAxes(cs), BroadcastLen(cs)))
IndexArr(arr, comps) ==
    IF Len(comps) > Len(arr.shape) THEN Raise("IndexError")
    ELSE IndexPadded(arr, PadComps(comps, Len(arr.shape)))

\* arr[marks] for a tuple of slice(None) (TRUE) and None (FALSE): each
\* slice(None) keeps the next axis of arr, each None inserts an axis of length 1
RECURSIVE NewAxesShape(_, _)
NewAxesShape(shape, marks) ==
    IF marks = <<>> THEN shape
    ELSE IF Head(marks)
         THEN <<Head(shape)>> \o NewAxesShape(Tail(shape), Tail(marks))
         ELSE <<1>> \o NewAxesShape(shape, Tail(marks))
NewAxes(arr, marks) ==
    LET isTrue(m) == m
    IN  IF Len(SelectSeq(marks, isTrue)) > Len(arr.shape) THEN Raise("IndexError")
        ELSE Ok([shape |-> NewAxesShape(arr.shape, marks), data |-> arr.data])

\* shape = tuple(slice(None) if isinstance(i, slice) else None for i in vol_slice)
ReshapeMarks(vol_slice) == [a \in 1..Len(vol_slice) |-> IsSlice(vol_slice[a])]

\* idx = self._idx[vol_slice][shape]
ThenNewAxes(first, marks) == IF first.err # "" THEN first ELSE NewAxes(first.val, marks)
LookupIdx(vidx, vol_slice) == ThenNewAxes(IndexArr(vidx, vol_slice), ReshapeMarks(vol_slice))

\* ------------------------------------------------------------ the gather
\* for i in item: if i is Ellipsis: raise IndexError
HasEllipsis_VolumeOnly(it) == \E k \in 3..Len(it) : it[k].kind = "ellipsis"
HasEllipsis(it) == \E k \in 1..Len(it) : it[k].kind = "ellipsis"

\* stack_idx = self._i2j[idx.ravel()]
StackIdx(i2j, ix) == [k \in 1..Len(ix.data) |-> i2j[ix.data[k] + 1]]

RECURSIVE SortedSeq(_)
SortedSeq(S) ==
    IF S = {} THEN <<>>
    ELSE LET m == CHOOSE x \in S : \A y \in S : x <= y
         IN  <<m>> \o SortedSeq(S \ {m})

\* np.unique(stack_idx[:, 0]): the file ids, ascending, each once
UniqueFiles(stack_idx) == SortedSeq({stack_idx[k][1] : k \in 1..Len(stack_idx)})

RECURSIVE InsertSorted(_, _)
InsertSorted(x, s) ==
    IF s = <<>> THEN <<x>>
    ELSE IF x <= Head(s) THEN <<x>> \o s
    ELSE <<Head(s)>> \o InsertSorted(x, Tail(s))
RECURSIVE SortAscending(_)
SortAscending(s) == IF s = <<>> THEN <<>> ELSE InsertSorted(Head(s), SortAscending(Tail(s)))

\* file_frames = stack_idx[stack_idx[:, 0] == f, 1]: the local ids wanted from
\* file f, in the order of the flattened idx
FileFramesRaw(stack_idx, f) ==
    LET isF(p) == p[1] = f
        rows == SelectSeq(stack_idx, isF)
    IN  [k \in 1..Len(rows) |-> rows[k][2]]
FileFrames_Ascending(stack_idx, f) == SortAscending(FileFramesRaw(stack_idx, f))
FileFrames(stack_idx, f) == FileFramesRaw(stack_idx, f)

\* The page reader, self._stacks[f].asarray(frames).  A page is named by where
\* it is stored.  The reader is an external collaborator; its interface takes a
\* set of local page indices, so the order of the result is its own choice:
\* "requested" hands the pages back in the order of frames, "reversed" in the
\* opposite order.
Page(f, l) == [file |-> f, page |-> l]
ReaderOrders == {"requested", "reversed"}
AsArray(f, frames, ord) ==
    LET m == Len(frames)
    IN  [k \in 1..m |-> Page(f, frames[IF ord = "requested" THEN k ELSE m + 1 - k])]

\* ret_val[..., file_id == f] = tmp...: the k-th position of the mask, in C
\* order, takes the k-th page the reader returned (both branches of the
\* len(tmp.shape) test do this; the first is the one-page case)
ScatterFrom(stack_idx, tmp) ==
    [k \in 1..Len(stack_idx) |->
        tmp[stack_idx[k][1]][Cardinality({j \in 1..k : stack_idx[j][1] = stack_idx[k][1]})]]
Scatter(stack_idx, ord) ==
    ScatterFrom(stack_idx,
                [f \in {stack_idx[k][1] : k \in 1..Len(stack_idx)} |->
                    AsArray(f, FileFrames(stack_idx, f), ord)])

\* one bulk read per pass of the loop over np.unique(stack_idx[:, 0])
BulkReads(stack_idx) ==
    LET fs == UniqueFiles(stack_idx)
    IN  [p \in 1..Len(fs) |->
            [file |-> fs[p], frames |-> FileFrames(stack_idx, fs[p]), purpose |-> "gather"]]

\* the rows or columns kept by ret_val[img_slice + 3 * (slice(None),)]; an
\* Ellipsis there stands for the whole of the one axis the other four
\* components leave over
ImgSel(c, d) == IF c.kind = "slice" THEN SliceSel(c, d) ELSE [k \in 1..d |-> k - 1]

NoArr == [shape |-> <<0>>, data |-> <<>>]
NoRet == [shape |-> <<0>>, data |-> <<>>, rows |-> <<>>, cols |-> <<>>]

\* __getitem__ past the Ellipsis test.  A plane of the result is the page it
\* was copied from; rows and cols are the pixel rows and columns kept of each.
GatherPages(ix, stack_idx, ord, rows, cols) ==
    [err |-> "",
     idx |-> ix,
     ret |-> [shape |-> <<Len(rows), Len(cols)>> \o ix.shape,
              data |-> Scatter(stack_idx, ord),
              rows |-> rows, cols |-> cols],
     reads |-> BulkReads(stack_idx)]
GatherIdx(img_slice, ix, ord, i2j) ==
    IF ix.err # ""
    THEN [err |-> ix.err, idx |-> NoArr, ret |-> NoRet, reads |-> <<>>]
    ELSE GatherPages(ix.val, StackIdx(i2j, ix.val), ord,
                     ImgSel(img_slice[1], ImgH), ImgSel(img_slice[2], ImgW))
Gather(it, ord, i2j, vidx) ==
    GatherIdx(SubSeq(it, 1, 2), LookupIdx(vidx, SubSeq(it, 3, Len(it))), ord, i2j)

\* self.shape on first use: self._stacks[0].asarray([0]).shape
ShapeProbe(img_dim) ==
    IF img_dim = <<>> THEN <<[file |-> 0, frames |-> <<0>>, purpose |-> "shape"]>> ELSE <<>>

\* ------------------------------------------------------------ the machine
VARIABLES
    stacks,             \* the page count of each source file, in basename order
    tag,                \* [version, header] parsed from the first page's tag
    pc,                 \* "new", "failed", "ready", "returned"
    error,              \* the exception that ended __init__, "" if none
    _n, _ntiffs, scanimage_version, header, _i2j, _idx, _img_dim,
    item, order,        \* the index expression and the reader's order of the last call
    err,                \* the exception the last call raised, "" if none
    idx, ret, reads,    \* its GlobalPageId tensor, its result, the reads it issued
    hadFailed           \* an Ellipsis call has been refused on this reader

vars == <<stacks, tag, pc, error, _n, _ntiffs, scanimage_version, header, _i2j,
          _idx, _img_dim, item, order, err, idx, ret, reads, hadFailed>>
readerState == <<_n, _ntiffs, scanimage_version, header, _i2j, _idx, _img_dim>>
callState == <<item, order, err, idx, ret, reads>>

PageCountLists == UNION {[1..k -> 1..MaxPages] : k \in 0..MaxFiles}
Tags ==
    {[version |-> v, header |-> HeaderOf(v, [c \in 1..nch |-> c], nsl, fz)] :
        v \in SIVersions, nch \in 0..MaxChannels, nsl \in 0..MaxSlices, fz \in {0, 1}}

\* the index expressions and reader orders a call is drawn from
ChannelComps == {IntC(1), FullC, SliceC(0, 2)}
SliceComps == {IntC(0), SliceC(0, 2)}
FrameComps == {IntC(1), FullC}
ListOrFull == {FullC, ListC(<<1, 0>>)}
VolSlices ==
    {<<a, b, c>> : a \in ChannelComps, b \in SliceComps, c \in FrameComps}
    \cup {<<>>, <<IntC(1)>>, <<FullC, IntC(1)>>, <<IntC(0), SliceC(1, 3), SliceC(1, 3)>>}
    \cup {<<a, b, c>> : a \in ListOrFull, b \in ListOrFull, c \in ListOrFull}
    \cup {<<IntC(1), FullC, ListC(<<0, 0>>)>>, <<ListC(<<0>>), ListC(<<0, 1>>), FullC>>,
          <<ListC(<<0, 1>>)>>}
    \cup {<<EllipsisC>>, <<IntC(0), EllipsisC, FullC>>, <<FullC, SliceC(0, 2), EllipsisC>>}
Items ==
    {<<FullC, FullC>> \o v : v \in VolSlices}
    \cup {<<SliceC(0, 1), SliceC(1, 2), FullC, FullC, FullC>>,
          <<EllipsisC, FullC, FullC, FullC, FullC>>,
          <<FullC, EllipsisC, IntC(0), IntC(0), IntC(0)>>}
ReversedItems ==
    {<<FullC, FullC, a, b, FullC>> : a \in {FullC, IntC(0)}, b \in {FullC, SliceC(0, 2)}}
Calls ==
    {<<it, "requested">> : it \in Items} \cup {<<it, "reversed">> : it \in ReversedItems}

NoCall ==
    /\ item = <<>> /\ order = "requested" /\ err = ""
    /\ idx = NoArr /\ ret = NoRet /\ reads = <<>>

InitCommon ==
    /\ pc = "new" /\ error = ""
    /\ _n = <<>> /\ _ntiffs = 0 /\ scanimage_version = "" /\ header = <<>>
    /\ _i2j = <<>> /\ _idx = NoArr /\ _img_dim = <<>>
    /\ NoCall
    /\ hadFailed = FALSE

\* every list within the bounds, and the single ten-page file of the mismatch example
Init ==
    /\ stacks \in PageCountLists \cup {<<10>>}
    /\ tag \in Tags
    /\ InitCommon

\* how __init__ ends: built is the outcome of everything up to self._idx
InitDone(version, hdr, ntiffs, built) ==
    IF built.err = ""
    THEN /\ pc' = "ready"
         /\ _n' = stacks
         /\ _ntiffs' = ntiffs
         /\ scanimage_version' = version
         /\ header' = hdr
         /\ _i2j' = I2J(stacks)
         /\ _idx' = built.val
         /\ _img_dim' = <<>>
         /\ UNCHANGED error
    ELSE /\ pc' = "failed"
         /\ error' = built.err
         /\ UNCHANGED readerState

\* load_header, then the branch that builds self._idx
LoadAndBuild(hd, ntiffs) ==
    IF hd.err # "" THEN hd ELSE BuildIdx(ntiffs, hd.val.version, hd.val.header)

\* TIFFReader.__init__
Construct ==
    /\ pc = "new"
    /\ InitDone(tag.version, tag.header, SumSeq(stacks),
                LoadAndBuild(LoadHeader(stacks, tag), SumSeq(stacks)))
    /\ UNCHANGED <<stacks, tag, hadFailed>>
    /\ UNCHANGED callState

\* the shape property
Shape ==
    /\ pc = "ready"
    /\ _img_dim' = <<ImgH, ImgW>>
    /\ UNCHANGED <<stacks, tag, pc, error, _n, _ntiffs, scanimage_version, header,
                   _i2j, _idx, hadFailed>>
    /\ UNCHANGED callState

\* what __getitem__ leaves behind once past the Ellipsis test: r is the outcome
\* of the gather; self.shape has cached the page shape by then
Gathered(r, ord) ==
    /\ order' = ord
    /\ err' = r.err
    /\ idx' = r.idx
    /\ ret' = r.ret
    /\ reads' = ShapeProbe(_img_dim) \o r.reads
    /\ _img_dim' = <<ImgH, ImgW>>
    /\ UNCHANGED <<_n, _ntiffs, scanimage_version, header, _i2j, _idx, hadFailed>>

\* TIFFReader.__getitem__(item), with the reader answering in order ord
GetItem(it, ord) ==
    /\ pc = "ready"
    /\ pc' = "returned"
    /\ item' = it
    /\ IF HasEllipsis(it)
       THEN /\ err' = "IndexError"
            /\ order' = "requested"
            /\ idx' = NoArr /\ ret' = NoRet /\ reads' = <<>>
            /\ hadFailed' = TRUE
            /\ UNCHANGED readerState
       ELSE Gathered(Gather(it, ord, _i2j, _idx), ord)
    /\ UNCHANGED <<stacks, tag, error>>

\* the caller takes the result (or the exception); the reader is idle again
Return ==
    /\ pc = "returned"
    /\ pc' = "ready"
    /\ item' = <<>> /\ order' = "requested" /\ err' = ""
    /\ idx' = NoArr /\ ret' = NoRet /\ reads' = <<>>
    /\ UNCHANGED <<stacks, tag, error, hadFailed>>
    /\ UNCHANGED readerState

Next ==
    \/ Construct
    \/ Shape
    \/ \E c \in Calls : GetItem(c[1], c[2])
    \/ Return

Spec == Init /\ [][Next]_vars

\* the acquisition of the worked example: 24 pages, three saved channels, two
\* slices (hence four frames), in one file or split over two
ExampleStacks == {<<24>>, <<12, 12>>, <<8, 16>>, <<10, 14>>}
ExampleTags ==
    {[version |-> v, header |-> HeaderOf(v, <<1, 2, 3>>, 2, fz)] :
        v \in {"5", "5.2"}, fz \in {0, 1}}

InitExample ==
    /\ stacks \in ExampleStacks
    /\ tag \in ExampleTags
    /\ InitCommon

SpecExample == InitExample /\ [][Next]_vars

\* ---------------------------------------------------------------- claims
\* what the claims speak of, read off the inputs rather than off the reader
Constructed == pc \in {"ready", "returned"}
TotalPages == SumSeq(stacks)
TagChannels ==
    Len(IF tag.version = "4" THEN tag.header.channelsSave
        ELSE tag.header.hChannels_channelSave)
TagSlices ==
    IF tag.version = "4" THEN tag.header.stackNumSlices
    ELSE tag.header.hStackManager_numSlices
\* the dialect's own "enable z-stepping" flag
TagZStepping ==
    IF tag.version = "4" THEN tag.header.fastZEnable ELSE tag.header.hFastZ_enable
TagFrames == TotalPages \div (TagChannels * TagSlices)
FactorsExactly ==
    /\ TagChannels >= 1 /\ TagSlices >= 1
    /\ TagChannels * TagSlices * TagFrames = TotalPages
\* every GlobalPageId occurs exactly once in arr
EachIdOnce(arr) ==
    \A g \in 0..(TotalPages - 1) :
        Cardinality({k \in 1..Len(arr.data) : arr.data[k] = g}) = 1
\* re-encoding of a (fileId, localId) pair: the pages of all earlier files + localId
Encode(n, p) == SumSeq(SubSeq(n, 1, p[1])) + p[2]
ValidPairs(n) ==
    UNION {{<<f, l>> : l \in 0..(n[f + 1] - 1)} : f \in 0..(Len(n) - 1)}

\* C1: for every list of per-file page counts, the table built from it decodes
\* each GlobalPageId g in [0, totalPages) to a valid (fileId, localId) whose
\* re-encoding is g, holds every valid pair exactly once, and has as many rows
\* as the page counts sum to; a constructed reader holds exactly that table.
C1_I2JBijection ==
    LET t == I2J(stacks)
    IN  /\ Len(t) = TotalPages
        /\ \A g \in 0..(TotalPages - 1) :
              /\ t[g + 1] \in ValidPairs(stacks)
              /\ Encode(stacks, t[g + 1]) = g
        /\ \A q \in ValidPairs(stacks) :
              Cardinality({g \in 0..(TotalPages - 1) : t[g + 1] = q}) = 1
        /\ Constructed => _i2j = t /\ _ntiffs = TotalPages /\ SumSeq(_n) = _ntiffs
C1_Witness ==
    /\ pc = "ready"
    /\ Len(_n) = 2 /\ _n[1] < _n[2]
    /\ _i2j[_n[1] + 1] = <<1, 0>>
    /\ _i2j[_ntiffs] = <<1, _n[2] - 1>>

\* C2: whenever nChannels x nSlices x nFrames (nFrames the truncated quotient)
\* differs from totalPages, construction fails and no call is ever served; a
\* constructed reader's VolumeIndex has exactly totalPages entries.
C2_MismatchFails ==
    /\ (TagChannels >= 1 /\ TagSlices >= 1 /\ ~FactorsExactly)
          => (pc \in {"new", "failed"} /\ NoCall)
    /\ Constructed =>
          /\ Prod(_idx.shape) = _ntiffs
          /\ Len(_idx.data) = _ntiffs
          /\ TagChannels * TagSlices * TagFrames = _ntiffs
C2_Witness ==
    /\ pc = "failed" /\ error = "ValueError"
    /\ TotalPages = 10 /\ TagChannels = 2 /\ TagSlices = 2 /\ TagFrames = 2

\* C3: a non-structural reader's VolumeIndex has axes (channel, slice, frame)
\* of sizes (nChannels, nSlices, nFrames), VolumeIndex[c, s, f] =
\* c + nChannels * (s + nSlices * f), and holds every GlobalPageId once.
C3_NonStructuralOrder ==
    (Constructed /\ TagZStepping # 0) =>
        /\ _idx.shape = <<TagChannels, TagSlices, TagFrames>>
        /\ \A c \in 0..(TagChannels - 1), sl \in 0..(TagSlices - 1), f \in 0..(TagFrames - 1) :
              ElemAt(_idx, <<c, sl, f>>) = c + TagChannels * (sl + TagSlices * f)
        /\ EachIdOnce(_idx)
C3_Witness ==
    /\ pc = "ready" /\ TagZStepping # 0
    /\ TagChannels >= 2 /\ TagSlices >= 2 /\ TagFrames >= 2
    /\ ElemAt(_idx, <<0, 1, 0>>) < ElemAt(_idx, <<0, 0, 1>>)

\* C4 as stated: in the non-structural 3 x 2 x 4 acquisition, GlobalPageId 0 is
\* the entry at (channel 0, slice 0, frame 0) and GlobalPageId 1 the entry at
\* (channel 0, slice 1, frame 0).
C4_AsStated ==
    (Constructed /\ TagZStepping # 0 /\ TagChannels = 3 /\ TagSlices = 2 /\ TotalPages = 24) =>
        /\ _idx.shape = <<3, 2, 4>>
        /\ ElemAt(_idx, <<0, 0, 0>>) = 0
        /\ ElemAt(_idx, <<0, 1, 0>>) = 1
\* C4 amended: GlobalPageId 0 is the entry at (channel 0, slice 0, frame 0),
\* GlobalPageId 1 the entry at (channel 1, slice 0, frame 0), and the entry at
\* (channel 0, slice 1, frame 0) is GlobalPageId 3.
C4_ChannelFastest ==
    (Constructed /\ TagZStepping # 0 /\ TagChannels = 3 /\ TagSlices = 2 /\ TotalPages = 24) =>
        /\ _idx.shape = <<3, 2, 4>>
        /\ ElemAt(_idx, <<0, 0, 0>>) = 0
        /\ ElemAt(_idx, <<1, 0, 0>>) = 1
        /\ ElemAt(_idx, <<0, 1, 0>>) = 3
C4_Witness ==
    /\ pc = "ready" /\ TagZStepping # 0
    /\ TagChannels = 3 /\ TagSlices = 2 /\ TotalPages = 24
    /\ _idx.shape = <<3, 2, 4>>

\* C5: a structural reader's VolumeIndex has axes (channel, slice, frame) of
\* sizes (nChannels, nSlices, nFrames), VolumeIndex[c, s, f] =
\* c + nChannels * (f + nFrames * s) (frame varies faster than slice), and
\* holds every GlobalPageId once.
C5_StructuralOrder ==
    (Constructed /\ TagZStepping = 0) =>
        /\ _idx.shape = <<TagChannels, TagSlices, TagFrames>>
        /\ \A c \in 0..(TagChannels - 1), sl \in 0..(TagSlices - 1), f \in 0..(TagFrames - 1) :
              ElemAt(_idx, <<c, sl, f>>) = c + TagChannels * (f + TagFrames * sl)
        /\ EachIdOnce(_idx)
C5_Witness ==
    /\ pc = "ready" /\ TagZStepping = 0
    /\ TagChannels >= 2 /\ TagSlices >= 2 /\ TagFrames >= 2
    /\ ElemAt(_idx, <<0, 0, 1>>) < ElemAt(_idx, <<0, 1, 0>>)

\* the call that has just returned, read off its index expression
Served == pc = "returned" /\ err = ""
VolComp(it, a) == IF Len(it) >= a + 2 THEN it[a + 2] ELSE FullC
NoLists(it) == \A a \in 1..3 : VolComp(it, a).kind \in {"int", "slice"}
\* the indices a component selects on an axis of length d: one for a bare
\* integer, the listed ones for a list, the range's for a range
Selected(c, d) ==
    IF c.kind = "int" THEN <<c.i>>
    ELSE IF c.kind = "list" THEN c.l
    ELSE SliceSel(c, d)
SelectedOn(a) == Selected(VolComp(item, a), _idx.shape[a])
\* the page stored where the table sends GlobalPageId g
PageOfId(g) == [file |-> _i2j[g + 1][1], page |-> _i2j[g + 1][2]]
GatherReads ==
    LET isGather(r) == r.purpose = "gather"
    IN  SelectSeq(reads, isGather)

\* C6: a call whose volume components are integers and ranges, served by a
\* reader that returns pages in the order requested, puts at volume position
\* (i, j, k) the page stored where the table sends VolumeIndex[c_i, s_j, f_k],
\* also when the pages come from several files and interleave.
C6_GatherMatchesDirectReads ==
    (Served /\ order = "requested" /\ NoLists(item)) =>
        LET cS == SelectedOn(1)
            sS == SelectedOn(2)
            fS == SelectedOn(3)
            vshape == <<Len(cS), Len(sS), Len(fS)>>
        IN  /\ ret.shape = <<Len(ret.rows), Len(ret.cols)>> \o vshape
            /\ ret.rows = SliceSel(item[1], ImgH)
            /\ ret.cols = SliceSel(item[2], ImgW)
            /\ Len(ret.data) = Prod(vshape)
            /\ \A i \in 1..Len(cS), j \in 1..Len(sS), k \in 1..Len(fS) :
                  ret.data[Ravel(<<i - 1, j - 1, k - 1>>, vshape) + 1]
                      = PageOfId(ElemAt(_idx, <<cS[i], sS[j], fS[k]>>))
C6_Witness ==
    /\ Served /\ order = "requested" /\ NoLists(item)
    /\ Len(item) = 5
    /\ item[3].kind = "int"
    /\ item[4] = SliceC(0, 2) /\ _idx.shape[2] >= 2
    /\ \E a, b, c \in 1..Len(ret.data) :
          /\ a < b /\ b < c
          /\ ret.data[a].file = ret.data[c].file
          /\ ret.data[a].file # ret.data[b].file

\* C7 as stated: for volume components that are integers, ranges or lists, the
\* looked-up tensor is the cross-product of the three selections, with axes
\* (channel, slice, frame) of the selections' lengths, and the output has five axes.
C7_AsStated ==
    Served =>
        LET cS == SelectedOn(1)
            sS == SelectedOn(2)
            fS == SelectedOn(3)
        IN  /\ idx.shape = <<Len(cS), Len(sS), Len(fS)>>
            /\ Len(ret.shape) = 5
            /\ \A i \in 1..Len(cS), j \in 1..Len(sS), k \in 1..Len(fS) :
                  ElemAt(idx, <<i - 1, j - 1, k - 1>>) = ElemAt(_idx, <<cS[i], sS[j], fS[k]>>)

\* C8 as stated: a call issues one bulk read for each file that holds a
\* required page and none for another, and whatever the order the reader
\* returns the pages of a bulk read in, each output position holds the page
\* of its own GlobalPageId.
C8_AsStated ==
    Served =>
        LET needed == {PageOfId(idx.data[k]).file : k \in 1..Len(idx.data)}
            gr == GatherReads
        IN  /\ {gr[p].file : p \in 1..Len(gr)} = needed
            /\ Len(gr) = Cardinality(needed)
            /\ \A k \in 1..Len(idx.data) : ret.data[k] = PageOfId(idx.data[k])

\* the result of the same call on a reader built afresh from the same files
FreshResult(it, ord) ==
    Gather(it, ord, I2J(stacks), LoadAndBuild(LoadHeader(stacks, tag), TotalPages).val).ret

C10_AsStated ==
    (pc # "new" /\ stacks # <<>> /\ TagChannels >= 2 /\ FactorsExactly) =>
        /\ Constructed
        /\ _idx.shape = <<TagChannels, TagSlices, TagFrames>>
        /\ \A c \in 0..(TagChannels - 1), sl \in 0..(TagSlices - 1), f \in 0..(TagFrames - 1) :
              ElemAt(_idx, <<c, sl, f>>) =
                  IF TagZStepping = 0 THEN c + TagChannels * (f + TagFrames * sl)
                  ELSE c + TagChannels * (sl + TagSlices * f)

====
